---- MODULE Spec2Model ----
(***************************************************************************)
(* Feedback-System: the storage layer (models.py, class FeedbackModel)     *)
(* over one SQLite table feedback(id, user, comment, timestamp).           *)
(*                                                                         *)
(* Python str values are sequences of code points (32 = space, 97 = 'a'),  *)
(* so that the text comparison of ORDER BY and the layout of strftime are  *)
(* computed and not assumed.  Calls are made one after the other (each     *)
(* action is one whole call); the wall clock never runs backwards.         *)
(***************************************************************************)
EXTENDS Integers, Sequences, FiniteSets, TLC

\* ---------------------------------------------------------------- bounds
\* number of rows ever inserted (the AUTOINCREMENT counter stops here)
MaxSeq == 2
\* number of seconds the wall clock advances
MaxClock == 1
\* length of the str values validate_feedback_data is called with
MaxLen == 2
\* number of rows inserted through POST /create_feedback
MaxPosts == 1
\* number of times setup_database runs
MaxRuns == 2
\* number of worker threads that serve requests at the same time
MaxWorkers == 2
\* number of storage calls the worker threads begin
MaxCalls == 3

\* ---------------------------------------------------------------- values
\* Python None / SQL NULL: a value that is no sequence of code points
NoneVal == <<-1>>

IsNone(v) == v = NoneVal

\* the str values the calls are made with: "a", "b", "" and " "
TextA == <<97>>
TextB == <<98>>
TextEmpty == <<>>
TextSpace == <<32>>

\* the dicts passed as `data`: a dict is a function from its keys
DataInputs ==
    { [user |-> TextA, comment |-> TextB],
      [user |-> TextEmpty, comment |-> TextSpace],
      [user |-> NoneVal, comment |-> NoneVal],
      [comment |-> TextB],
      [user |-> TextA] }

\* str.isspace for the code points below 128
IsSpace(ch) == ch \in (9 .. 13) \cup (28 .. 32)

RECURSIVE LStrip(_)
LStrip(s) == IF s # <<>> /\ IsSpace(Head(s)) THEN LStrip(Tail(s)) ELSE s

RECURSIVE RStrip(_)
RStrip(s) ==
    IF s # <<>> /\ IsSpace(s[Len(s)]) THEN RStrip(SubSeq(s, 1, Len(s) - 1)) ELSE s

\* str.strip()
Strip(s) == RStrip(LStrip(s))

HasKeys(data) == {"user", "comment"} \subseteq DOMAIN data

\* an argument passed as feedback_id: a Python int or a Python str
IntId(n) == [kind |-> "int", n |-> n, s |-> <<>>]
StrId(s) == [kind |-> "str", n |-> 0, s |-> s]

IdInputs ==
    { IntId(n) : n \in {-1} \cup (1 .. MaxSeq) }
        \cup { StrId(<<49>>), StrId(<<105, 110, 118>>) }

\* ------------------------------------------------------- clock and strftime
\* the local time at which the run starts: 2024-09-30 23:59:59, one second
\* before every field of the timestamp changes
BaseTime ==
    [year |-> 2024, month |-> 9, day |-> 30, hour |-> 23, minute |-> 59, second |-> 59]

IsLeap(y) == (y % 4 = 0 /\ y % 100 # 0) \/ y % 400 = 0

DaysIn(y, m) ==
    IF m = 2 THEN (IF IsLeap(y) THEN 29 ELSE 28)
    ELSE IF m \in {4, 6, 9, 11} THEN 30 ELSE 31

\* datetime.now() when the clock has advanced c seconds (c below one day)
DateTimeNow(c) ==
    LET s  == BaseTime.second + c
        mi == BaseTime.minute + (s \div 60)
        h  == BaseTime.hour + (mi \div 60)
        d  == BaseTime.day + (h \div 24)
        over == d > DaysIn(BaseTime.year, BaseTime.month)
        mo == IF over THEN BaseTime.month + 1 ELSE BaseTime.month
    IN  [ year   |-> IF mo > 12 THEN BaseTime.year + 1 ELSE BaseTime.year,
          month  |-> IF mo > 12 THEN 1 ELSE mo,
          day    |-> IF over THEN d - DaysIn(BaseTime.year, BaseTime.month) ELSE d,
          hour   |-> h % 24,
          minute |-> mi % 60,
          second |-> s % 60 ]

Digit(d) == 48 + d

\* two digits only when the number needs them
Pad2_NoPad(n) == IF n < 10 THEN << Digit(n) >> ELSE << Digit(n \div 10), Digit(n % 10) >>

Pad2(n) == << Digit((n \div 10) % 10), Digit(n % 10) >>

\* the year without its century, as '%y' gives it
Pad4_TwoDigits(n) == Pad2(n % 100)

Pad4(n) == << Digit((n \div 1000) % 10), Digit((n \div 100) % 10) >> \o Pad2(n % 100)

\* a format with the day first, '%d-%m-%Y %H:%M:%S'
Strftime_DayFirst(dt) ==
    Pad2(dt.day) \o <<45>> \o Pad2(dt.month) \o <<45>> \o Pad4(dt.year) \o <<32>>
        \o Pad2(dt.hour) \o <<58>> \o Pad2(dt.minute) \o <<58>> \o Pad2(dt.second)

\* dt.strftime('%Y-%m-%d %H:%M:%S')
Strftime(dt) ==
    Pad4(dt.year) \o <<45>> \o Pad2(dt.month) \o <<45>> \o Pad2(dt.day) \o <<32>>
        \o Pad2(dt.hour) \o <<58>> \o Pad2(dt.minute) \o <<58>> \o Pad2(dt.second)

\* FeedbackModel._get_current_timestamp
GetCurrentTimestamp(c) == Strftime(DateTimeNow(c))

\* ------------------------------------------------------------ SQL helpers
\* comparison of two TEXT values under the BINARY collation: a < b
RECURSIVE TextLess(_, _)
TextLess(a, b) ==
    IF b = <<>> THEN FALSE
    ELSE IF a = <<>> THEN TRUE
    ELSE IF Head(a) # Head(b) THEN Head(a) < Head(b)
    ELSE TextLess(Tail(a), Tail(b))

IsDigit(ch) == ch \in 48 .. 57

\* the integer a str converts to under INTEGER affinity, or -1 when it is
\* not a decimal literal (ids are positive, so -1 matches no row)
RECURSIVE DecimalValue(_, _)
DecimalValue(s, acc) ==
    IF s = <<>> THEN acc
    ELSE IF ~IsDigit(Head(s)) THEN -1
    ELSE DecimalValue(Tail(s), 10 * acc + (Head(s) - 48))

\* WHERE id = ? : the row ids the bound parameter equals
IdMatches(rowid, fid) ==
    IF fid.kind = "int" THEN rowid = fid.n
    ELSE fid.s # <<>> /\ rowid = DecimalValue(fid.s, 0)

Matching(t, fid) == { i \in DOMAIN t : IdMatches(i, fid) }

\* a rowcount that is not set by the statement
RowCount_Zero(t, fid) == 0

\* cursor.rowcount after an UPDATE or DELETE ... WHERE id = ?
RowCount(t, fid) == Cardinality(Matching(t, fid))

SetMax(S) == CHOOSE x \in S : \A y \in S : y <= x

\* id INTEGER PRIMARY KEY without AUTOINCREMENT: one more than the largest
\* id in the table
NextRowId_MaxPlusOne(t, s) == SetMax(DOMAIN t \cup {0}) + 1

\* id INTEGER PRIMARY KEY AUTOINCREMENT: one more than the largest id ever used
NextRowId(t, s) == SetMax(DOMAIN t \cup {s}) + 1

\* user TEXT NOT NULL, comment TEXT NOT NULL
NotNullOk(data) == ~IsNone(data.user) /\ ~IsNone(data.comment)

\* the INSERT with its first two parameters exchanged
InsertRow_Swapped(t, s, data, ts) ==
    [ i \in DOMAIN t \cup {SetMax(DOMAIN t \cup {s}) + 1} |->
        IF i \in DOMAIN t THEN t[i]
        ELSE [user |-> data.comment, comment |-> data.user, timestamp |-> ts] ]

\* an INSERT that takes the smallest id no row has
InsertRow_FirstFree(t, s, data, ts) ==
    LET free == CHOOSE n \in 1 .. Cardinality(DOMAIN t) + 1 : n \notin DOMAIN t
    IN  [ i \in DOMAIN t \cup {free} |->
            IF i \in DOMAIN t THEN t[i]
            ELSE [user |-> data.user, comment |-> data.comment, timestamp |-> ts] ]

\* INSERT INTO feedback (user, comment, timestamp) VALUES (?, ?, ?)
InsertRow(t, s, data, ts) ==
    [ i \in DOMAIN t \cup {NextRowId(t, s)} |->
        IF i \in DOMAIN t THEN t[i]
        ELSE [user |-> data.user, comment |-> data.comment, timestamp |-> ts] ]

\* an UPDATE that inserts the row when the id matches none (REPLACE INTO)
UpdateRows_Upsert(t, fid, data, ts) ==
    LET ids == IF fid.kind = "int" /\ fid.n > 0 THEN DOMAIN t \cup {fid.n} ELSE DOMAIN t
    IN  [ i \in ids |->
            IF IdMatches(i, fid)
            THEN [user |-> data.user, comment |-> data.comment, timestamp |-> ts]
            ELSE t[i] ]

\* an UPDATE that leaves the timestamp column out of its SET list
UpdateRows_KeepTimestamp(t, fid, data, ts) ==
    [ i \in DOMAIN t |->
        IF IdMatches(i, fid)
        THEN [user |-> data.user, comment |-> data.comment, timestamp |-> t[i].timestamp]
        ELSE t[i] ]

\* an UPDATE whose WHERE clause selects a row and whose SET reaches them all
UpdateRows_NoWhere(t, fid, data, ts) ==
    [ i \in DOMAIN t |->
        IF Matching(t, fid) # {}
        THEN [user |-> data.user, comment |-> data.comment, timestamp |-> ts]
        ELSE t[i] ]

\* an UPDATE that keeps the later of the row's timestamp and the new one
UpdateRows_MaxTimestamp(t, fid, data, ts) ==
    [ i \in DOMAIN t |->
        IF IdMatches(i, fid)
        THEN [user |-> data.user, comment |-> data.comment,
              timestamp |-> IF TextLess(ts, t[i].timestamp) THEN t[i].timestamp ELSE ts]
        ELSE t[i] ]

\* UPDATE feedback SET user = ?, comment = ?, timestamp = ? WHERE id = ?
UpdateRows(t, fid, data, ts) ==
    [ i \in DOMAIN t |->
        IF IdMatches(i, fid)
        THEN [user |-> data.user, comment |-> data.comment, timestamp |-> ts]
        ELSE t[i] ]

\* a DELETE that removes every row once the id matches one
DeleteRows_NoWhere(t, fid) ==
    [ i \in (IF Matching(t, fid) # {} THEN {} ELSE DOMAIN t) |-> t[i] ]

\* a soft delete: the row is marked and stays in the table
DeleteRows_Soft(t, fid) == t

\* DELETE FROM feedback WHERE id = ?
DeleteRows(t, fid) == [ i \in DOMAIN t \ Matching(t, fid) |-> t[i] ]

\* dict(row) of SELECT id, user, comment, timestamp
RowDict(t, i) ==
    [id |-> i, user |-> t[i].user, comment |-> t[i].comment, timestamp |-> t[i].timestamp]

\* ORDER BY timestamp with the default direction, ASC
OrderedDesc_Asc(rows) ==
    \A i, j \in 1 .. Len(rows) :
        i < j => ~TextLess(rows[j].timestamp, rows[i].timestamp)

\* ORDER BY timestamp DESC: no row precedes a row with a larger timestamp
OrderedDesc(rows) ==
    \A i, j \in 1 .. Len(rows) :
        i < j => ~TextLess(rows[i].timestamp, rows[j].timestamp)

\* the results SELECT ... ORDER BY timestamp DESC may return: every row once,
\* rows with equal timestamps in any order
SelectAll(t) ==
    LET n == Cardinality(DOMAIN t)
        orders == { f \in [1 .. n -> DOMAIN t] : \A i, j \in 1 .. n : i # j => f[i] # f[j] }
        lists == { [k \in 1 .. n |-> RowDict(t, f[k])] : f \in orders }
    IN  { rows \in lists : OrderedDesc(rows) }

\* SELECT ... without its WHERE clause; fetchone: the first row of the table
SelectOne_NoWhere(t, fid) ==
    IF DOMAIN t = {} THEN {}
    ELSE { RowDict(t, CHOOSE i \in DOMAIN t : \A j \in DOMAIN t : i <= j) }

\* SELECT ... WHERE id = ? ; fetchone: the row, or nothing
SelectOne(t, fid) == { RowDict(t, i) : i \in Matching(t, fid) }

\* ------------------------------------------------------------------ state
VARIABLES
    db_ok,      \* the storage location can be opened (sqlite3.connect works)
    table,      \* the feedback table: id -> [user, comment, timestamp]
    seq,        \* sqlite_sequence: the largest id ever assigned
    clock,      \* seconds the wall clock has advanced
    call,       \* the last call made and what it returned (under SpecApp: by
                \* the request answered last, NoCall when it made none)
    created,    \* history, for every id ever assigned: the timestamp its create
                \* wrote, and whether user and comment are still what it wrote
    response,   \* the answer to the last HTTP request (app.py)
    validation, \* the last call of validate_feedback_data and its result
    setup,      \* the run of setup_database in progress (setup.py)
    requests,   \* for every worker thread: the storage call it is in or made last
    started,    \* the number of storage calls the worker threads have begun
    hops        \* the redirects of the chain the client is following

vars ==
    <<db_ok, table, seq, clock, call, created, response, validation, setup,
      requests, started, hops>>

\* what the storage layer does not touch
app_vars == <<response, validation, setup, requests, started, hops>>

EmptyTable == [ i \in {} |-> 0 ]

\* the history of an id whose row is gone
Gone == [timestamp |-> <<>>, intact |-> FALSE]

\* the history after a call that turns table t into t2 and inserts row `new`
\* (a set: empty when the call inserts nothing)
Track(cr, t, t2, new) ==
    [ i \in DOMAIN cr \cup new |->
        IF i \notin DOMAIN t2 THEN Gone
        ELSE IF i \in DOMAIN cr
        THEN [ timestamp |-> cr[i].timestamp,
               intact |-> /\ cr[i].intact
                          /\ (i \in DOMAIN t \cap DOMAIN t2 =>
                                /\ t2[i].user = t[i].user
                                /\ t2[i].comment = t[i].comment) ]
        ELSE [ timestamp |-> t2[i].timestamp, intact |-> TRUE ] ]

\* a finished call: its name, its return value (ok for the bool of
\* create/update/delete, rows for read_all, row for get_by_id: no element is
\* None), the exception it let through and the sqlite3.Error it logged
Call(op, ok, rows, row, raised, logged) ==
    [op |-> op, ok |-> ok, rows |-> rows, row |-> row, raised |-> raised,
     logged |-> logged]

NoCall == Call("none", FALSE, <<>>, {}, "", "")

\* no request answered yet
NoResponse == [route |-> "none"]

\* validate_feedback_data not called yet
NoValidation == [called |-> FALSE]

\* setup_database is not running; it has run `runs` times
SetupIdle == [pc |-> "idle", creates |-> 0, runs |-> 0]

\* the threads that serve requests at the same time
Workers == 1 .. MaxWorkers

\* a worker thread in a storage call (pc "called": the local variable
\* timestamp is set, the statement not yet executed) or after it (pc "done");
\* seen: the workers whose writes to the row of feedback_id were executed
\* while this call was under way
Worker(pc, op, fid, data, timestamp, ok, seen) ==
    [pc |-> pc, op |-> op, fid |-> fid, data |-> data, timestamp |-> timestamp,
     ok |-> ok, seen |-> seen]

\* a worker thread that has made no storage call
IdleWorker == Worker("idle", "none", IntId(0), <<>>, <<>>, FALSE, {})

\* FeedbackModel.__init__ on a new database file, or on an unusable path
Init ==
    /\ db_ok \in BOOLEAN
    /\ table = EmptyTable
    /\ seq = 0
    /\ clock = 0
    /\ call = NoCall
    /\ created = EmptyTable
    /\ response = NoResponse
    /\ validation = NoValidation
    /\ setup = SetupIdle
    /\ requests = [w \in Workers |-> IdleWorker]
    /\ started = 0
    /\ hops = 0

\* the wall clock reaches the next second
Tick ==
    /\ clock < MaxClock
    /\ clock' = clock + 1
    /\ UNCHANGED <<db_ok, table, seq, call, created>>

\* FeedbackModel.create(data)
CreateCall(data) ==
    LET ts == GetCurrentTimestamp(clock)
        Ret(ok, raised, logged) == Call("create", ok, <<>>, {}, raised, logged)
    IN  /\ IF ~db_ok
           THEN /\ call' = Ret(FALSE, "", "OperationalError")
                /\ UNCHANGED <<table, seq, created>>
           ELSE IF ~HasKeys(data)
           THEN /\ call' = Ret(FALSE, "KeyError", "")
                /\ UNCHANGED <<table, seq, created>>
           ELSE IF ~NotNullOk(data)
           THEN /\ call' = Ret(FALSE, "", "IntegrityError")
                /\ UNCHANGED <<table, seq, created>>
           ELSE /\ table' = InsertRow(table, seq, data, ts)
                /\ seq' = NextRowId(table, seq)
                /\ created' = Track(created, table, table', DOMAIN table' \ DOMAIN table)
                /\ call' = Ret(TRUE, "", "")
        /\ UNCHANGED <<db_ok, clock>>

\* FeedbackModel.create(data), while the AUTOINCREMENT counter is below its bound
Create(data) == seq < MaxSeq /\ CreateCall(data)

\* FeedbackModel.read_all()
ReadAll ==
    /\ IF ~db_ok
       THEN call' = Call("read_all", FALSE, <<>>, {}, "", "OperationalError")
       ELSE \E rows \in SelectAll(table) :
               call' = Call("read_all", FALSE, rows, {}, "", "")
    /\ UNCHANGED <<db_ok, table, seq, clock, created>>

\* FeedbackModel.get_by_id(feedback_id)
GetById(fid) ==
    /\ IF ~db_ok
       THEN call' = Call("get_by_id", FALSE, <<>>, {}, "", "OperationalError")
       ELSE call' = Call("get_by_id", FALSE, <<>>, SelectOne(table, fid), "", "")
    /\ UNCHANGED <<db_ok, table, seq, clock, created>>

\* FeedbackModel.update(feedback_id, data)
Update(fid, data) ==
    LET ts == GetCurrentTimestamp(clock)
        Ret(ok, raised, logged) == Call("update", ok, <<>>, {}, raised, logged)
    IN  /\ IF ~db_ok
           THEN /\ call' = Ret(FALSE, "", "OperationalError")
                /\ UNCHANGED <<table, created>>
           ELSE IF ~HasKeys(data)
           THEN /\ call' = Ret(FALSE, "KeyError", "")
                /\ UNCHANGED <<table, created>>
           ELSE IF Matching(table, fid) # {} /\ ~NotNullOk(data)
           THEN /\ call' = Ret(FALSE, "", "IntegrityError")
                /\ UNCHANGED <<table, created>>
           ELSE /\ call' = Ret(RowCount(table, fid) > 0, "", "")
                /\ table' = UpdateRows(table, fid, data, ts)
                /\ created' = Track(created, table, table', {})
        /\ UNCHANGED <<db_ok, seq, clock>>

\* FeedbackModel.delete(feedback_id)
Delete(fid) ==
    /\ IF ~db_ok
       THEN /\ call' = Call("delete", FALSE, <<>>, {}, "", "OperationalError")
            /\ UNCHANGED <<table, created>>
       ELSE /\ call' = Call("delete", RowCount(table, fid) > 0, <<>>, {}, "", "")
            /\ table' = DeleteRows(table, fid)
            /\ created' = Track(created, table, table', {})
    /\ UNCHANGED <<db_ok, seq, clock>>

\* _init_database without its try/except: the sqlite3.Error reaches the caller
Construct_Reraise ==
    /\ call' = Call("__init__", FALSE, <<>>, {},
                    IF db_ok THEN "" ELSE "OperationalError", "")
    /\ UNCHANGED <<db_ok, table, seq, clock, created>>

\* a DROP TABLE before the CREATE TABLE: every construction empties the store
Construct_DropTable ==
    /\ call' = Call("__init__", FALSE, <<>>, {}, "",
                    IF db_ok THEN "" ELSE "OperationalError")
    /\ table' = EmptyTable
    /\ created' = Track(created, table, table', {})
    /\ UNCHANGED <<db_ok, seq, clock>>

\* FeedbackModel.__init__ again, on the store as it is: CREATE TABLE IF NOT
\* EXISTS, its sqlite3.Error logged and swallowed
Construct ==
    /\ call' = Call("__init__", FALSE, <<>>, {}, "",
                    IF db_ok THEN "" ELSE "OperationalError")
    /\ UNCHANGED <<db_ok, table, seq, clock, created>>

Next ==
    \/ Tick /\ UNCHANGED app_vars
    \/ \E data \in DataInputs : Create(data) /\ UNCHANGED app_vars
    \/ ReadAll /\ UNCHANGED app_vars
    \/ \E fid \in IdInputs : GetById(fid) /\ UNCHANGED app_vars
    \/ \E fid \in IdInputs, data \in DataInputs : Update(fid, data) /\ UNCHANGED app_vars
    \/ \E fid \in IdInputs : Delete(fid) /\ UNCHANGED app_vars
    \/ Construct /\ UNCHANGED app_vars

Spec == Init /\ [][Next]_vars

\* ------------------------------------------------------------- validators
\* what the storage layer owns
store_vars == <<db_ok, table, seq, clock, call, created>>

\* the code points of the str values: tab, space and 'a'
Chars == {9, 32, 97}

\* every str of at most n code points
Texts(n) == UNION { [1 .. k -> Chars] : k \in 0 .. n }

\* the values passed as user and comment: a str, or None
FieldInputs == Texts(MaxLen) \cup {NoneVal}

\* Python truth of a str or None: `not v` holds for None and for ""
Truthy(v) == ~IsNone(v) /\ v # <<>>

\* the check with `not user` alone, without `or not user.strip()`
ValidateFeedbackData_NoStrip(user, comment) ==
    LET errors ==
            (IF ~Truthy(user) THEN <<"User field is required">> ELSE <<>>)
            \o (IF ~Truthy(comment) THEN <<"Comment field is required">> ELSE <<>>)
    IN  [is_valid |-> Len(errors) = 0, errors |-> errors]

\* validate_feedback_data(user, comment) -> (is_valid, errors)
ValidateFeedbackData(user, comment) ==
    LET errors ==
            (IF ~Truthy(user) \/ ~Truthy(Strip(user))
             THEN <<"User field is required">> ELSE <<>>)
            \o (IF ~Truthy(comment) \/ ~Truthy(Strip(comment))
                THEN <<"Comment field is required">> ELSE <<>>)
    IN  [is_valid |-> Len(errors) = 0, errors |-> errors]

\* sanitize_input without the strip: None becomes "", the rest is kept
SanitizeInput_NoStrip(text) == IF Truthy(text) THEN text ELSE <<>>

\* sanitize_input(text)
SanitizeInput(text) == IF Truthy(text) THEN Strip(text) ELSE <<>>

\* the call of validate_feedback_data this run makes
Validate(user, comment) ==
    /\ ~validation.called
    /\ validation' =
            [called |-> TRUE, user |-> user, comment |-> comment,
             result |-> ValidateFeedbackData(user, comment)]
    /\ UNCHANGED <<store_vars, response, setup, requests, started, hops>>

NextValidate == \E user \in FieldInputs, comment \in FieldInputs : Validate(user, comment)

SpecValidate == Init /\ [][NextValidate]_vars

\* --------------------------------------------------------------- web layer
\* config.Messages
Messages ==
    [ FEEDBACK_CREATED   |-> "Feedback created successfully!",
      FEEDBACK_UPDATED   |-> "Feedback updated successfully!",
      FEEDBACK_DELETED   |-> "Feedback deleted successfully!",
      FEEDBACK_NOT_FOUND |-> "Feedback not found!",
      FIELDS_REQUIRED    |-> "Both user and comment fields are needed!",
      CREATE_ERROR       |-> "Error creating feedback. Please try again.",
      UPDATE_ERROR       |-> "Error updating feedback. Please try again.",
      DELETE_ERROR       |-> "Error deleting feedback. Please try again." ]

\* config.MessageCategories
MessageCategories == [SUCCESS |-> "success", ERROR |-> "error"]

\* flash(message, category)
Flash(message, category) == [message |-> message, category |-> category]

\* request.form of a POST: the fields the client sent, a dict of str
FormInputs ==
    { [user |-> TextA, comment |-> TextB],
      [user |-> <<32, 98>>, comment |-> <<97, 9>>],
      [user |-> TextSpace, comment |-> TextB],
      [user |-> TextA, comment |-> TextEmpty],
      [comment |-> TextB] }

\* the feedback_id of <int:feedback_id>: the converter accepts digits only
RouteIds == { IntId(n) : n \in 0 .. MaxPosts }

\* request.form.get(key, '')
FormGet(form, key) == IF key \in DOMAIN form THEN form[key] ELSE <<>>

\* a form read with a placeholder for a missing field: form.get(key, 'a')
ProcessFeedbackForm_Placeholder(form) ==
    [user |-> SanitizeInput(IF "user" \in DOMAIN form THEN form.user ELSE TextA),
     comment |-> SanitizeInput(IF "comment" \in DOMAIN form THEN form.comment ELSE TextA)]

\* _process_feedback_form
ProcessFeedbackForm(form) ==
    [user |-> SanitizeInput(FormGet(form, "user")),
     comment |-> SanitizeInput(FormGet(form, "comment"))]

\* _create_feedback_data
CreateFeedbackData(user, comment) == [user |-> user, comment |-> comment]

\* the answer to a request: render_template(template, feedback = ...) with
\* status 200, or redirect(url_for(location, feedback_id = ...)) with status
\* 302; the notices flashed and the storage methods called while handling it
Response(route, method, status, template, location, location_id, flashes, feedback, calls) ==
    [route |-> route, method |-> method, status |-> status, template |-> template,
     location |-> location, location_id |-> location_id, flashes |-> flashes,
     feedback |-> feedback, calls |-> calls]

RenderTemplate(route, method, template, flashes, feedback, calls) ==
    Response(route, method, 200, template, "", 0, flashes, feedback, calls)

Redirect(route, method, location, location_id, flashes, calls) ==
    Response(route, method, 302, "", location, location_id, flashes, {}, calls)

\* an update whose return value the handler does not look at
UpdateReturns_Ignored(fid, data) == TRUE

\* what update(feedback_id, data) returns in the current state
UpdateReturns(fid, data) ==
    db_ok /\ HasKeys(data) /\ NotNullOk(data) /\ RowCount(table, fid) > 0

\* GET /
Index ==
    /\ response' = Redirect("index", "GET", "read_feedback", 0, <<>>, <<>>)
    /\ call' = NoCall
    /\ UNCHANGED <<db_ok, table, seq, clock, created, validation, setup, requests, started>>

\* GET /create_feedback
CreateFeedbackGet ==
    /\ response' = RenderTemplate("create_feedback", "GET", "create.html", <<>>, {}, <<>>)
    /\ call' = NoCall
    /\ UNCHANGED <<db_ok, table, seq, clock, created, validation, setup, requests, started>>

\* POST /create_feedback
CreateFeedbackPost(form) ==
    LET f == ProcessFeedbackForm(form)
        v == ValidateFeedbackData(f.user, f.comment)
        R(flashes, calls) ==
            RenderTemplate("create_feedback", "POST", "create.html", flashes, {}, calls)
    IN  /\ IF ~v.is_valid
           THEN /\ response' = R(<<Flash(Messages.FIELDS_REQUIRED, MessageCategories.ERROR)>>,
                                 <<>>)
                /\ call' = NoCall
                /\ UNCHANGED <<db_ok, table, seq, clock, created>>
           ELSE /\ seq < MaxPosts
                /\ Create(CreateFeedbackData(f.user, f.comment))
                /\ response' =
                     IF call'.ok
                     THEN Redirect("create_feedback", "POST", "read_feedback", 0,
                            <<Flash(Messages.FEEDBACK_CREATED, MessageCategories.SUCCESS)>>,
                            <<"create">>)
                     ELSE R(<<Flash(Messages.CREATE_ERROR, MessageCategories.ERROR)>>,
                            <<"create">>)
        /\ UNCHANGED <<validation, setup, requests, started>>

\* a read view that sends the client back to itself while the list is empty
ReadFeedback_RedirectWhenEmpty ==
    /\ ReadAll
    /\ response' =
         IF call'.rows = <<>>
         THEN Redirect("read_feedback", "GET", "read_feedback", 0, <<>>, <<"read_all">>)
         ELSE RenderTemplate("read_feedback", "GET", "read.html", <<>>, {}, <<"read_all">>)
    /\ UNCHANGED <<validation, setup, requests, started>>

\* GET /read_feedback
ReadFeedback ==
    /\ ReadAll
    /\ response' = RenderTemplate("read_feedback", "GET", "read.html", <<>>, {},
                                  <<"read_all">>)
    /\ UNCHANGED <<validation, setup, requests, started>>

\* the form rendered with whatever get_by_id returned, found or not
UpdateForm_NoCheck(fid, method, flashes, calls) ==
    /\ GetById(fid)
    /\ response' = RenderTemplate("update_feedback", method, "update.html", flashes,
                                  call'.row, calls \o <<"get_by_id">>)

\* the end of update_feedback: the form for the row, or not found
UpdateForm(fid, method, flashes, calls) ==
    /\ GetById(fid)
    /\ response' =
         IF call'.row = {}
         THEN Redirect("update_feedback", method, "read_feedback", 0,
                flashes \o <<Flash(Messages.FEEDBACK_NOT_FOUND, MessageCategories.ERROR)>>,
                calls \o <<"get_by_id">>)
         ELSE RenderTemplate("update_feedback", method, "update.html", flashes,
                call'.row, calls \o <<"get_by_id">>)

\* GET /update_feedback/<int:feedback_id>
UpdateFeedbackGet(fid) ==
    /\ UpdateForm(fid, "GET", <<>>, <<>>)
    /\ UNCHANGED <<validation, setup, requests, started>>

\* POST /update_feedback/<int:feedback_id>
UpdateFeedbackPost(fid, form) ==
    LET f == ProcessFeedbackForm(form)
        v == ValidateFeedbackData(f.user, f.comment)
        data == CreateFeedbackData(f.user, f.comment)
    IN  /\ IF ~v.is_valid
           THEN /\ response' =
                     Redirect("update_feedback", "POST", "update_feedback", fid.n,
                        <<Flash(Messages.FIELDS_REQUIRED, MessageCategories.ERROR)>>, <<>>)
                /\ call' = NoCall
                /\ UNCHANGED <<db_ok, table, seq, clock, created>>
           ELSE IF UpdateReturns(fid, data)
           THEN /\ Update(fid, data)
                /\ response' =
                     Redirect("update_feedback", "POST", "read_feedback", 0,
                        <<Flash(Messages.FEEDBACK_UPDATED, MessageCategories.SUCCESS)>>,
                        <<"update">>)
           ELSE UpdateForm(fid, "POST",
                    <<Flash(Messages.UPDATE_ERROR, MessageCategories.ERROR)>>, <<"update">>)
        /\ UNCHANGED <<validation, setup, requests, started>>

\* a delete that reports success whatever delete() returned
DeleteFeedback_AlwaysSuccess(fid) ==
    /\ Delete(fid)
    /\ response' =
         Redirect("delete_feedback", "GET", "read_feedback", 0,
            <<Flash(Messages.FEEDBACK_DELETED, MessageCategories.SUCCESS)>>, <<"delete">>)
    /\ UNCHANGED <<validation, setup, requests, started>>

\* GET /delete_feedback/<int:feedback_id>
DeleteFeedback(fid) ==
    /\ Delete(fid)
    /\ response' =
         Redirect("delete_feedback", "GET", "read_feedback", 0,
            IF call'.ok
            THEN <<Flash(Messages.FEEDBACK_DELETED, MessageCategories.SUCCESS)>>
            ELSE <<Flash(Messages.DELETE_ERROR, MessageCategories.ERROR)>>,
            <<"delete">>)
    /\ UNCHANGED <<validation, setup, requests, started>>

\* 1 for a redirect, 0 for a rendered page
Redirects(r) == IF r.status = 302 THEN 1 ELSE 0

\* the client sends a request of its own: a chain of redirects begins with
\* the answer when the answer is one
NewRequest == hops' = Redirects(response')

\* the client follows the redirect it was answered with: a GET of the url
\* redirect(url_for(...)) named, which is read_feedback or update_feedback
FollowRedirect ==
    /\ response.route # "none"
    /\ response.status = 302
    /\ \/ response.location = "read_feedback" /\ ReadFeedback
       \/ /\ response.location = "update_feedback"
          /\ UpdateFeedbackGet(IntId(response.location_id))
    /\ hops' = hops + Redirects(response')

NextApp ==
    \/ Tick /\ UNCHANGED app_vars
    \/ Index /\ NewRequest
    \/ CreateFeedbackGet /\ NewRequest
    \/ \E form \in FormInputs : CreateFeedbackPost(form) /\ NewRequest
    \/ ReadFeedback /\ NewRequest
    \/ \E fid \in RouteIds : UpdateFeedbackGet(fid) /\ NewRequest
    \/ \E fid \in RouteIds, form \in FormInputs : UpdateFeedbackPost(fid, form) /\ NewRequest
    \/ \E fid \in RouteIds : DeleteFeedback(fid) /\ NewRequest
    \/ FollowRedirect

SpecApp == Init /\ [][NextApp]_vars

\* ------------------------------------------------------------------ setup
\* sample_feedback: "ilinca" / "Great! Very enice.", "John" / "I love it.",
\* "mcDonalds" / "I'm lovin' it."
SampleFeedback ==
    << [user |-> <<105, 108, 105, 110, 99, 97>>,
        comment |-> <<71, 114, 101, 97, 116, 33, 32, 86, 101, 114, 121, 32, 101, 110, 105, 99, 101, 46>>],
       [user |-> <<74, 111, 104, 110>>,
        comment |-> <<73, 32, 108, 111, 118, 101, 32, 105, 116, 46>>],
       [user |-> <<109, 99, 68, 111, 110, 97, 108, 100, 115>>,
        comment |-> <<73, 39, 109, 32, 108, 111, 118, 105, 110, 39, 32, 105, 116, 46>>] >>

\* the ids setup_database can assign
SetupIds == { IntId(n) : n \in 1 .. Len(SampleFeedback) * MaxRuns }

\* feedback_model = FeedbackModel()
SetupConstruct ==
    /\ setup.pc = "idle"
    /\ setup.runs < MaxRuns
    /\ Construct
    /\ setup' = [setup EXCEPT !.pc = "read_all", !.creates = 0]
    /\ UNCHANGED <<response, validation, requests, started, hops>>

\* the seeding started whatever read_all returned
SetupReadAll_NoCheck ==
    /\ setup.pc = "read_all"
    /\ ReadAll
    /\ setup' = [setup EXCEPT !.pc = "create"]
    /\ UNCHANGED <<response, validation, requests, started, hops>>

\* existing_feedback = feedback_model.read_all(); if not existing_feedback
SetupReadAll ==
    /\ setup.pc = "read_all"
    /\ ReadAll
    /\ setup' = IF call'.rows = <<>>
                THEN [setup EXCEPT !.pc = "create"]
                ELSE [setup EXCEPT !.pc = "idle", !.runs = @ + 1]
    /\ UNCHANGED <<response, validation, requests, started, hops>>

\* for feedback in sample_feedback: feedback_model.create(feedback)
SetupCreate ==
    /\ setup.pc = "create"
    /\ CreateCall(SampleFeedback[setup.creates + 1])
    /\ setup' = IF setup.creates + 1 = Len(SampleFeedback)
                THEN [setup EXCEPT !.pc = "idle", !.creates = @ + 1, !.runs = @ + 1]
                ELSE [setup EXCEPT !.creates = @ + 1]
    /\ UNCHANGED <<response, validation, requests, started, hops>>

\* a row deleted between two runs of setup_database
SetupDelete(fid) ==
    /\ setup.pc = "idle"
    /\ Delete(fid)
    /\ UNCHANGED app_vars

NextSetup ==
    \/ Tick /\ UNCHANGED app_vars
    \/ SetupConstruct
    \/ SetupReadAll
    \/ SetupCreate
    \/ \E fid \in SetupIds : SetupDelete(fid)

SpecSetup == Init /\ [][NextSetup]_vars

\* ------------------------------------------------------------ concurrency
\* the dicts the worker threads pass as data: both keys, no None
ConcData == { data \in DataInputs : HasKeys(data) /\ NotNullOk(data) }

\* the ids the worker threads pass as feedback_id
ConcIds == { IntId(n) : n \in 1 .. MaxCalls - 1 }

\* a worker enters a storage call
Begin(w, op, fid, data, timestamp) ==
    /\ requests[w].pc # "called"
    /\ started < MaxCalls
    /\ started' = started + 1
    /\ requests' = [requests EXCEPT ![w] = Worker("called", op, fid, data, timestamp, FALSE, {})]
    /\ UNCHANGED <<store_vars, response, validation, setup, hops>>

\* create: timestamp = self._get_current_timestamp()
BeginCreate(w, data) == Begin(w, "create", IntId(0), data, GetCurrentTimestamp(clock))

\* update: timestamp = self._get_current_timestamp()
BeginUpdate(w, fid, data) == Begin(w, "update", fid, data, GetCurrentTimestamp(clock))

\* delete: the call is entered
BeginDelete(w, fid) == Begin(w, "delete", fid, <<>>, <<>>)

\* the statement run with a timestamp taken when it is executed
Executed_ClockAtStatement(r) ==
    IF ~db_ok THEN table
    ELSE IF r.op = "create" THEN InsertRow(table, seq, r.data, GetCurrentTimestamp(clock))
    ELSE IF r.op = "update" THEN UpdateRows(table, r.fid, r.data, GetCurrentTimestamp(clock))
    ELSE DeleteRows(table, r.fid)

\* the table after the statement of the call r
Executed(r) ==
    IF ~db_ok THEN table
    ELSE IF r.op = "create" THEN InsertRow(table, seq, r.data, r.timestamp)
    ELSE IF r.op = "update" THEN UpdateRows(table, r.fid, r.data, r.timestamp)
    ELSE DeleteRows(table, r.fid)

\* a call that returns True without looking at cursor.rowcount
Returned_RowcountIgnored(r) == db_ok

\* what the call r returns
Returned(r) ==
    /\ db_ok
    /\ r.op # "create" => RowCount(table, r.fid) > 0

\* the worker's statement is executed (SQLite runs one statement at a time)
\* and the call returns
Execute(w) ==
    LET r == requests[w]
        hit == IF r.op = "create" THEN DOMAIN Executed(r) \ DOMAIN table
               ELSE Matching(table, r.fid)
    IN  /\ r.pc = "called"
        /\ table' = Executed(r)
        /\ seq' = IF db_ok /\ r.op = "create" THEN NextRowId(table, seq) ELSE seq
        /\ created' = Track(created, table, table', DOMAIN table' \ DOMAIN table)
        /\ call' = Call(r.op, Returned(r), <<>>, {}, "",
                        IF db_ok THEN "" ELSE "OperationalError")
        /\ requests' =
              [ v \in Workers |->
                  IF v = w THEN Worker("done", r.op, r.fid, <<>>, <<>>, Returned(r), r.seen)
                  ELSE IF /\ requests[v].pc = "called"
                          /\ db_ok
                          /\ \E i \in hit : IdMatches(i, requests[v].fid)
                  THEN [requests[v] EXCEPT !.seen = @ \cup {w}]
                  ELSE requests[v] ]
        /\ UNCHANGED <<db_ok, clock, started, response, validation, setup, hops>>

NextConc ==
    \/ Tick /\ UNCHANGED app_vars
    \/ \E w \in Workers, data \in ConcData : BeginCreate(w, data)
    \/ \E w \in Workers, fid \in ConcIds, data \in ConcData : BeginUpdate(w, fid, data)
    \/ \E w \in Workers, fid \in ConcIds : BeginDelete(w, fid)
    \/ \E w \in Workers : Execute(w)

SpecConc == Init /\ [][NextConc]_vars

\* ================================================================ claims
\* user and comment are str values that are not blank
NonBlankData(data) ==
    /\ HasKeys(data)
    /\ NotNullOk(data)
    /\ Strip(data.user) # <<>>
    /\ Strip(data.comment) # <<>>

\* some element of rows is row i with the given user and comment
Shows(rows, i, user, comment) ==
    \E k \in 1 .. Len(rows) :
        rows[k].id = i /\ rows[k].user = user /\ rows[k].comment = comment

\* this step is a successful update of row i
UpdatesRow(i) ==
    /\ call'.op = "update" /\ call'.ok
    /\ \E fid \in IdInputs, data \in DataInputs : IdMatches(i, fid) /\ Update(fid, data)

\* this step is a successful delete of row i
DeletesRow(i) ==
    /\ call'.op = "delete" /\ call'.ok
    /\ \E fid \in IdInputs : IdMatches(i, fid) /\ Delete(fid)

\* a create with non-blank user and comment on a working store returns true
\* and every read_all then shows a new row with that user and comment
CreateShows ==
    \A data \in DataInputs :
        (call'.op = "create" /\ db_ok /\ NonBlankData(data) /\ Create(data)) =>
            /\ call'.ok /\ call'.raised = ""
            /\ \A rows \in SelectAll(table') :
                \E i \in DOMAIN table' \ DOMAIN table :
                    Shows(rows, i, data.user, data.comment)

\* row i is shown by every read_all after this step as it is shown before it
StaysShown(i) ==
    \A rows \in SelectAll(table') : Shows(rows, i, table[i].user, table[i].comment)

\* row i was created with non-blank user and comment and shows them still
AsCreated(i) == created[i].intact /\ NonBlankData(table[i])

C1_OriginalStep ==
    /\ CreateShows
    /\ \A i \in DOMAIN table : StaysShown(i) \/ ~AsCreated(i) \/ DeletesRow(i)

\* C1 as stated: on a working store a create with non-blank user and comment
\* returns true, and every read_all from then on, until the row is deleted,
\* contains a row with that user and comment.
C1_Original == [][C1_OriginalStep]_vars

C1_AmendedStep ==
    /\ CreateShows
    /\ \A i \in DOMAIN table :
        StaysShown(i) \/ ~AsCreated(i) \/ DeletesRow(i) \/ UpdatesRow(i)

\* C1 amended: on a working store a create with non-blank user and comment
\* returns true, and every read_all from then on, until the row is deleted
\* or updated, contains a row with that user and comment.
C1_CreateVisibleUntilWritten == [][C1_AmendedStep]_vars

\* a read_all after a delete still returns the row an earlier create wrote
C1_Witness ==
    /\ db_ok /\ call.op = "read_all"
    /\ DOMAIN created \ DOMAIN table # {}
    /\ \E k \in 1 .. Len(call.rows) :
        /\ call.rows[k].user = TextA /\ call.rows[k].comment = TextB
        /\ created[call.rows[k].id].intact

\* the last call is a create that returned true; its row has the id seq
JustCreated == db_ok /\ call.op = "create" /\ call.ok

\* C2 as stated: right after create returns true the row it inserted is the
\* first element of read_all, also when other rows were written in the same
\* clock second.
C2_Original ==
    JustCreated => \A rows \in SelectAll(table) : rows[1].id = seq

\* C2 amended: right after create returns true the row it inserted is
\* preceded in read_all only by rows with the same timestamp, and it is the
\* first element when no other row was written in the same clock second.
C2_CreateAtHeadUnlessTie ==
    JustCreated =>
        \A rows \in SelectAll(table) :
            /\ \E k \in 1 .. Len(rows) :
                /\ rows[k].id = seq
                /\ \A j \in 1 .. k - 1 : rows[j].timestamp = rows[k].timestamp
            /\ (\A i \in DOMAIN table \ {seq} : table[i].timestamp # table[seq].timestamp)
                    => rows[1].id = seq

\* a create into a store that holds a row written in an earlier second
C2_Witness ==
    /\ JustCreated
    /\ \E i \in DOMAIN table : i # seq /\ table[i].timestamp # table[seq].timestamp
    /\ \A rows \in SelectAll(table) : rows[1].id = seq

\* the clock reading a timestamp was formatted from
TimeOf(ts) == CHOOSE c \in 0 .. MaxClock : GetCurrentTimestamp(c) = ts

\* C3: on a working store read_all returns every row of the store exactly
\* once, no row before a row with a later timestamp, and the empty sequence
\* when the store holds no row.
C3_ReadAllComplete ==
    (db_ok /\ call.op = "read_all") =>
        /\ Len(call.rows) = Cardinality(DOMAIN table)
        /\ \A i \in DOMAIN table :
            \E k \in 1 .. Len(call.rows) : call.rows[k] = RowDict(table, i)
        /\ \A j, k \in 1 .. Len(call.rows) :
            j < k => TimeOf(call.rows[j].timestamp) >= TimeOf(call.rows[k].timestamp)
        /\ (table = EmptyTable => call.rows = <<>>)

\* read_all returned two rows written in different seconds
C3_Witness ==
    /\ db_ok /\ call.op = "read_all"
    /\ Len(call.rows) = 2
    /\ call.rows[1].timestamp # call.rows[2].timestamp

\* this step may be a call of update: the last call made after it is one
IsUpdate == call'.op = "update"

\* this step may be a call of delete
IsDelete == call'.op = "delete"

\* C4: update with an id that matches no row returns false and leaves the
\* set of rows and every row's user, comment and timestamp as they were.
C4_UpdateMissingIdStep ==
    \A fid \in IdInputs, data \in DataInputs :
        (IsUpdate /\ HasKeys(data) /\ Matching(table, fid) = {} /\ Update(fid, data)) =>
            /\ ~call'.ok /\ call'.raised = ""
            /\ table' = table

C4_UpdateMissingId == [][C4_UpdateMissingIdStep]_vars

\* an update that matched no row of a store that holds rows
C4_Witness ==
    /\ db_ok /\ call.op = "update"
    /\ ~call.ok /\ call.raised = "" /\ call.logged = ""
    /\ table # EmptyTable

\* the ids assigned to rows that exist no more
DeletedIds == DOMAIN created \ DOMAIN table

\* C5: after delete(id) returns true, get_by_id(id) returns absent and
\* read_all contains no row with that id, right after the delete and from
\* then on.
C5_DeleteThenAbsentStep ==
    /\ \A fid \in IdInputs :
        (IsDelete /\ call'.ok /\ Delete(fid)) =>
            /\ SelectOne(table', fid) = {}
            /\ \A rows \in SelectAll(table') :
                \A k \in 1 .. Len(rows) : ~IdMatches(rows[k].id, fid)
    /\ \A i \in DeletedIds : i \notin DOMAIN table'
    /\ \A fid \in IdInputs :
        (call'.op = "get_by_id" /\ (\E i \in DeletedIds : IdMatches(i, fid)) /\ GetById(fid))
            => call'.row = {}
    /\ (call'.op = "read_all" /\ ReadAll) => \A k \in 1 .. Len(call'.rows) : call'.rows[k].id \notin DeletedIds

C5_DeleteThenAbsent == [][C5_DeleteThenAbsentStep]_vars

\* a get_by_id that found nothing in a store from which the newest row was
\* deleted and into which a row was inserted afterwards
C5_Witness ==
    /\ db_ok /\ call.op = "get_by_id" /\ call.row = {}
    /\ \E i \in DeletedIds : \E j \in DOMAIN table : i < j

\* YYYY-MM-DD HH:MM:SS
WellFormedTimestamp(ts) ==
    /\ Len(ts) = 19
    /\ \A k \in {1, 2, 3, 4, 6, 7, 9, 10, 12, 13, 15, 16, 18, 19} : IsDigit(ts[k])
    /\ ts[5] = 45 /\ ts[8] = 45
    /\ ts[11] = 32
    /\ ts[14] = 58 /\ ts[17] = 58

\* C6: after create(data) returns true the new row, read back with read_all
\* or get_by_id, has data's user and comment unmodified, a timestamp of the
\* form YYYY-MM-DD HH:MM:SS, and an id no row had before.
C6_CreateRoundTripStep ==
    \A data \in DataInputs :
        (call'.op = "create" /\ call'.ok /\ Create(data)) =>
            LET new == DOMAIN table' \ DOMAIN table
            IN  /\ Cardinality(new) = 1
                /\ new \cap DOMAIN created = {}
                /\ \A i \in new :
                    LET dict == [id |-> i, user |-> data.user, comment |-> data.comment,
                                 timestamp |-> table'[i].timestamp]
                    IN  /\ WellFormedTimestamp(dict.timestamp)
                        /\ SelectOne(table', IntId(i)) = {dict}
                        /\ \A rows \in SelectAll(table') :
                            \E k \in 1 .. Len(rows) : rows[k] = dict

C6_CreateRoundTrip == [][C6_CreateRoundTripStep]_vars

\* a create of user "a", comment "b" after an earlier row was deleted
C6_Witness ==
    /\ JustCreated
    /\ table[seq].user = TextA /\ table[seq].comment = TextB
    /\ DeletedIds # {}

\* C7: a successful update sets the row's timestamp to a value greater than
\* or equal to the timestamp the row got when it was created, and keeps the
\* row's id.
C7_UpdateTimestampStep ==
    \A fid \in IdInputs, data \in DataInputs :
        (IsUpdate /\ call'.ok /\ Update(fid, data)) =>
            /\ Matching(table, fid) # {}
            /\ DOMAIN table' = DOMAIN table
            /\ \A i \in Matching(table, fid) :
                /\ ~TextLess(table'[i].timestamp, created[i].timestamp)
                /\ TimeOf(table'[i].timestamp) >= TimeOf(created[i].timestamp)
                /\ SelectOne(table', fid) = {RowDict(table', i)}

C7_UpdateTimestamp == [][C7_UpdateTimestampStep]_vars

\* an update gave a row a timestamp other than the one of its creation
C7_Witness ==
    /\ db_ok /\ call.op = "update" /\ call.ok
    /\ \E i \in DOMAIN table : table[i].timestamp # created[i].timestamp

\* C8 as stated: after a successful update the row has the id and the
\* timestamp it had before the update.
C8_OriginalStep ==
    \A fid \in IdInputs, data \in DataInputs :
        (IsUpdate /\ call'.ok /\ Update(fid, data)) =>
            \A i \in Matching(table, fid) :
                /\ SelectOne(table', fid) = {RowDict(table', i)}
                /\ table'[i].timestamp = table[i].timestamp

C8_UpdateKeepsIdStep ==
    \A fid \in IdInputs, data \in DataInputs :
        (IsUpdate /\ call'.ok /\ Update(fid, data)) =>
            \A i \in Matching(table, fid) :
                /\ SelectOne(table', fid) = {RowDict(table', i)}
                /\ table'[i].timestamp = GetCurrentTimestamp(clock)
                /\ (table'[i].timestamp = table[i].timestamp
                        <=> TimeOf(table[i].timestamp) = clock)

C9_UpdateExactStep ==
    \A fid \in IdInputs, data \in DataInputs :
        (IsUpdate /\ db_ok /\ HasKeys(data) /\ Update(fid, data)) =>
            /\ call'.ok <=> (Matching(table, fid) # {} /\ NotNullOk(data))
            /\ call'.ok =>
                /\ Cardinality(Matching(table, fid)) = 1
                /\ DOMAIN table' = DOMAIN table
                /\ \A i \in DOMAIN table :
                    IF IdMatches(i, fid)
                    THEN table'[i].user = data.user /\ table'[i].comment = data.comment
                    ELSE table'[i] = table[i]
            /\ ~call'.ok => table' = table

C9_UpdateExact == [][C9_UpdateExactStep]_vars

\* an update of one of two rows that left the other row as it was
C9_Witness ==
    /\ db_ok /\ call.op = "update" /\ call.ok
    /\ Cardinality(DOMAIN table) > 1
    /\ \E i, j \in DOMAIN table :
        /\ table[i].user = TextA /\ ~created[i].intact
        /\ table[j].user = TextEmpty /\ created[j].intact

\* feedback_id is a str that is no decimal number
NotAnInteger(fid) == fid.kind = "str" /\ DecimalValue(fid.s, 0) < 0

\* C10: on a working store delete returns true exactly when a row with that
\* id existed; it removes that row and no other, and returns false and
\* changes nothing when no row has that id, an id that is not an integer
\* included.
C10_DeleteExactStep ==
    \A fid \in IdInputs :
        (IsDelete /\ db_ok /\ Delete(fid)) =>
            /\ call'.raised = ""
            /\ call'.ok <=> (\E i \in DOMAIN table : IdMatches(i, fid))
            /\ Cardinality(DOMAIN table \ DOMAIN table') <= 1
            /\ \A i \in DOMAIN table : i \in DOMAIN table' <=> ~IdMatches(i, fid)
            /\ \A i \in DOMAIN table' : i \in DOMAIN table /\ table'[i] = table[i]
            /\ NotAnInteger(fid) => ~call'.ok /\ table' = table

C10_DeleteExact == [][C10_DeleteExactStep]_vars

\* a delete that removed one row and left another
C10_Witness ==
    /\ db_ok /\ call.op = "delete" /\ call.ok
    /\ table # EmptyTable

\* C11: on an unusable storage location no call raises to the caller: create,
\* update and delete return false, read_all returns the empty sequence,
\* get_by_id returns absent, constructing the model does not raise, and the
\* store holds no row.
C11_UnusableStore ==
    ~db_ok =>
        /\ call.raised = ""
        /\ call.op \in {"create", "update", "delete"} => ~call.ok
        /\ call.op = "read_all" => call.rows = <<>>
        /\ call.op = "get_by_id" => call.row = {}
        /\ call.op # "none" => call.logged = "OperationalError"
        /\ table = EmptyTable

\* a delete on an unusable storage location, in a later second than the
\* construction
C11_Witness ==
    /\ ~db_ok /\ call.op = "delete" /\ ~call.ok
    /\ call.logged = "OperationalError"
    /\ clock > 0

\* C12 as stated: create never raises to the caller; with data whose user or
\* comment is None, or in which the user or comment key is missing, it
\* returns false and inserts no row.
C12_OriginalStep ==
    \A data \in DataInputs :
        (call'.op = "create" /\ Create(data)) =>
            /\ call'.raised = ""
            /\ (~HasKeys(data) \/ ~NotNullOk(data)) => ~call'.ok /\ table' = table

C12_Original == [][C12_OriginalStep]_vars

\* C13: on a working store get_by_id returns the row whose id equals the
\* argument when there is one, and absent, without raising, when there is
\* none: for a negative id and for a str that is no number always.
C13_GetByIdStep ==
    \A fid \in IdInputs :
        (call'.op = "get_by_id" /\ db_ok /\ GetById(fid)) =>
            /\ call'.raised = ""
            /\ table' = table
            /\ fid.kind = "int" =>
                    call'.row =
                        IF fid.n \in DOMAIN table
                        THEN { [id |-> fid.n, user |-> table[fid.n].user,
                                comment |-> table[fid.n].comment,
                                timestamp |-> table[fid.n].timestamp] }
                        ELSE {}
            /\ ((fid.kind = "int" /\ fid.n < 0) \/ NotAnInteger(fid)) => call'.row = {}
            /\ \A r \in call'.row : r.id \in DOMAIN table /\ IdMatches(r.id, fid)

C13_GetById == [][C13_GetByIdStep]_vars

\* get_by_id found the second of two rows
C13_Witness ==
    /\ db_ok /\ call.op = "get_by_id"
    /\ Cardinality(DOMAIN table) = 2
    /\ \E r \in call.row : r.id = 2

\* v is None, or a str of whitespace alone: nothing is left of it after
\* trimming
Blank(v) == IsNone(v) \/ \A k \in 1 .. Len(v) : v[k] \in (9 .. 13) \cup (28 .. 32)

\* C14: validate_feedback_data reports is_valid = false exactly when user or
\* comment is empty after trimming; a whitespace-only field gets the result
\* the empty field gets, and the error list is empty exactly when is_valid
\* is true.
C14_ValidateBlank ==
    validation.called =>
        LET user == validation.user
            comment == validation.comment
            result == validation.result
        IN  /\ result.is_valid <=> ~(Blank(user) \/ Blank(comment))
            /\ result.errors = <<>> <=> result.is_valid
            /\ result = ValidateFeedbackData(IF Blank(user) THEN <<>> ELSE user,
                                             IF Blank(comment) THEN <<>> ELSE comment)
            /\ Blank(user) <=> \E k \in 1 .. Len(result.errors) :
                                    result.errors[k] = "User field is required"
            /\ Blank(comment) <=> \E k \in 1 .. Len(result.errors) :
                                    result.errors[k] = "Comment field is required"

\* a user of whitespace alone with a comment that is not blank
C14_Witness ==
    /\ validation.called
    /\ validation.user = <<32, 9>> /\ validation.comment = <<32, 97>>
    /\ validation.result = [is_valid |-> FALSE, errors |-> <<"User field is required">>]

\* the form field is missing, empty or whitespace alone
FieldBlank(form, key) == key \notin DOMAIN form \/ Blank(form[key])

InvalidForm(form) == FieldBlank(form, "user") \/ FieldBlank(form, "comment")

\* the notices
FieldsRequired == [message |-> "Both user and comment fields are needed!", category |-> "error"]
UpdateError == [message |-> "Error updating feedback. Please try again.", category |-> "error"]
NotFound == [message |-> "Feedback not found!", category |-> "error"]
DeleteError == [message |-> "Error deleting feedback. Please try again.", category |-> "error"]
Updated == [message |-> "Feedback updated successfully!", category |-> "success"]
Deleted == [message |-> "Feedback deleted successfully!", category |-> "success"]

\* the response is a redirect to the read view
ToReadView(r) == r.status = 302 /\ r.location = "read_feedback" /\ r.template = ""

\* this step answers a request to the route with the method
Answers(route, method) == response'.route = route /\ response'.method = method

\* C15: a POST to /create_feedback whose user or comment field is missing,
\* empty or whitespace alone makes no create call and leaves the store as it
\* is; the response is the create form again, status 200, with the
\* fields-required notice.
C15_InvalidCreateStep ==
    \A form \in FormInputs :
        (Answers("create_feedback", "POST") /\ InvalidForm(form) /\ CreateFeedbackPost(form))
            => /\ response'.calls = <<>>
               /\ call' = NoCall
               /\ table' = table /\ seq' = seq
               /\ response'.status = 200
               /\ response'.template = "create.html"
               /\ response'.location = ""
               /\ response'.flashes = <<FieldsRequired>>

C15_InvalidCreate == [][C15_InvalidCreateStep]_vars

\* an invalid POST answered with the form while the store holds a row
C15_Witness ==
    /\ response.route = "create_feedback" /\ response.method = "POST"
    /\ response.flashes = <<FieldsRequired>>
    /\ db_ok /\ table # EmptyTable

\* the response brings the user to the update form of the id: the form
\* rendered for that row, or a redirect to it
ToUpdateForm(r, n) ==
    \/ r.status = 200 /\ r.template = "update.html" /\ \E row \in r.feedback : row.id = n
    \/ r.status = 302 /\ r.location = "update_feedback" /\ r.location_id = n

\* C16 as stated: a POST to /update_feedback/{id} redirects to the read view
\* when the update succeeds, and brings the user to the update form of that
\* id on every failure: validation failure, storage error, and an id that
\* matches no row.
C16_OriginalStep ==
    \A fid \in RouteIds, form \in FormInputs :
        (Answers("update_feedback", "POST") /\ UpdateFeedbackPost(fid, form)) =>
            IF call'.op = "update" /\ call'.ok
            THEN ToReadView(response')
            ELSE ToUpdateForm(response', fid.n)

C16_Original == [][C16_OriginalStep]_vars

\* C16 amended: a POST to /update_feedback/{id} redirects to the read view
\* with the success notice when the update succeeds; on validation failure
\* it redirects to the update form of that id without calling storage; when
\* the id matches no row or the store is unusable it flashes the update-error
\* and the not-found notice and redirects to the read view, the store
\* unchanged.
C16_UpdatePostStep ==
    \A fid \in RouteIds, form \in FormInputs :
        (Answers("update_feedback", "POST") /\ UpdateFeedbackPost(fid, form)) =>
            IF InvalidForm(form)
            THEN /\ response'.status = 302
                 /\ response'.location = "update_feedback"
                 /\ response'.location_id = fid.n
                 /\ response'.flashes = <<FieldsRequired>>
                 /\ response'.calls = <<>>
                 /\ table' = table
            ELSE IF db_ok /\ fid.n \in DOMAIN table
            THEN /\ ToReadView(response')
                 /\ response'.flashes = <<Updated>>
                 /\ response'.calls = <<"update">>
                 /\ call'.op = "update" /\ call'.ok
                 /\ table'[fid.n].user = Strip(form.user)
                 /\ table'[fid.n].comment = Strip(form.comment)
            ELSE /\ ToReadView(response')
                 /\ response'.flashes = <<UpdateError, NotFound>>
                 /\ response'.calls = <<"update", "get_by_id">>
                 /\ table' = table

C16_UpdatePost == [][C16_UpdatePostStep]_vars

\* a valid POST for an id that matches no row of a store that holds a row
C16_Witness ==
    /\ response.route = "update_feedback" /\ response.method = "POST"
    /\ response.flashes = <<UpdateError, NotFound>>
    /\ db_ok /\ table # EmptyTable

\* C17: GET /delete_feedback/{id} always answers with a redirect to the read
\* view and exactly one notice: the success notice when a row with that id
\* existed and was removed, the failure notice otherwise; for an id no row
\* has the store is unchanged and nothing is raised.
C17_DeleteRouteStep ==
    \A fid \in RouteIds :
        (Answers("delete_feedback", "GET") /\ DeleteFeedback(fid)) =>
            /\ ToReadView(response')
            /\ Len(response'.flashes) = 1
            /\ response'.flashes[1] =
                    IF fid.n \in DOMAIN table /\ fid.n \notin DOMAIN table'
                    THEN Deleted ELSE DeleteError
            /\ fid.n \in DOMAIN table => fid.n \notin DOMAIN table'
            /\ fid.n \notin DOMAIN table => table' = table
            /\ call'.raised = ""

C17_DeleteRoute == [][C17_DeleteRouteStep]_vars

\* a delete of an id no row has, answered with the failure notice, the store
\* holding a row
C17_Witness ==
    /\ response.route = "delete_feedback"
    /\ response.flashes = <<DeleteError>>
    /\ db_ok /\ table # EmptyTable

\* C18: GET /update_feedback/{id} renders the update form with the row's
\* user and comment when a row with that id exists, redirects to the read
\* view with the not-found notice otherwise, and never changes the store.
C18_UpdateGetStep ==
    \A fid \in RouteIds :
        (Answers("update_feedback", "GET") /\ UpdateFeedbackGet(fid)) =>
            /\ table' = table /\ seq' = seq
            /\ IF fid.n \in DOMAIN table
               THEN /\ response'.status = 200
                    /\ response'.template = "update.html"
                    /\ response'.flashes = <<>>
                    /\ Cardinality(response'.feedback) = 1
                    /\ \A row \in response'.feedback :
                        /\ row.id = fid.n
                        /\ row.user = table[fid.n].user
                        /\ row.comment = table[fid.n].comment
               ELSE /\ ToReadView(response')
                    /\ response'.flashes = <<NotFound>>

C18_UpdateGet == [][C18_UpdateGetStep]_vars

\* the form rendered for a row that an earlier POST had updated
C18_Witness ==
    /\ response.route = "update_feedback" /\ response.method = "GET"
    /\ response.template = "update.html"
    /\ \E row \in response.feedback : row.user = TextB /\ ~created[row.id].intact

\* the store holds the three sample entries, one row each, and no other row
ThreeSampleRows(t) ==
    /\ Cardinality(DOMAIN t) = 3
    /\ \A k \in 1 .. 3 :
        \E i \in DOMAIN t :
            /\ t[i].user = SampleFeedback[k].user
            /\ t[i].comment = SampleFeedback[k].comment

\* C19: setup_database seeds only an empty store: when its read_all returns
\* a row it calls create zero times and leaves the store unchanged; when
\* read_all returns no row it calls create exactly three times, once per
\* sample entry, whether or not the creates fail; run twice on a working
\* store in which nothing else is written, it leaves the three sample rows.
C19_SetupSeedsStep ==
    /\ (setup.pc = "read_all" /\ setup'.pc # "read_all") =>
            /\ call'.op = "read_all"
            /\ table' = table /\ seq' = seq
            /\ setup'.creates = 0
            /\ IF call'.rows # <<>>
               THEN setup'.pc = "idle" /\ setup'.runs = setup.runs + 1
               ELSE setup'.pc = "create" /\ setup'.runs = setup.runs
    /\ (setup.pc = "create" /\ setup'.creates # setup.creates) =>
            /\ call'.op = "create"
            /\ setup'.creates = setup.creates + 1
            /\ db_ok <=> call'.ok
            /\ db_ok =>
                  \E i \in DOMAIN table' \ DOMAIN table :
                      /\ table'[i].user = SampleFeedback[setup'.creates].user
                      /\ table'[i].comment = SampleFeedback[setup'.creates].comment
            /\ IF setup'.creates = 3
               THEN setup'.pc = "idle" /\ setup'.runs = setup.runs + 1
               ELSE setup'.pc = "create" /\ setup'.runs = setup.runs
    /\ setup'.creates \in 0 .. 3
    /\ (setup'.pc = "idle" /\ setup'.runs > 0) => setup'.creates \in {0, 3}
    /\ (setup.pc = "create" /\ setup'.pc = "idle") => setup'.creates = 3
    /\ (db_ok /\ setup'.pc = "idle" /\ setup'.runs >= 2 /\ DOMAIN created' = DOMAIN table')
            => ThreeSampleRows(table')

C19_SetupSeeds == [][C19_SetupSeedsStep]_vars

\* setup_database has run twice on a working store and left three rows
C19_Witness ==
    /\ db_ok /\ setup.pc = "idle" /\ setup.runs = 2 /\ setup.creates = 0
    /\ DOMAIN created = DOMAIN table
    /\ ThreeSampleRows(table)

\* C20: constructing a FeedbackModel on a store that holds rows leaves every
\* row and the id counter as they are and does not raise; on a working
\* store the table is there for every later call (none fails); on an
\* unusable store the error is logged and swallowed, and every later call
\* returns false, absent or empty without raising.
C20_ConstructStep ==
    /\ (setup.pc = "idle" /\ setup'.pc = "read_all") =>
            /\ call'.op = "__init__"
            /\ call'.raised = ""
            /\ call'.logged = IF db_ok THEN "" ELSE "OperationalError"
            /\ table' = table /\ seq' = seq
    /\ db_ok => call'.logged = "" /\ call'.raised = ""
    /\ ~db_ok =>
            /\ call'.raised = ""
            /\ ~call'.ok /\ call'.rows = <<>> /\ call'.row = {}
            /\ table' = EmptyTable

C20_Construct == [][C20_ConstructStep]_vars

\* a model constructed on a store that holds three rows
C20_Witness ==
    /\ db_ok /\ call.op = "__init__"
    /\ Cardinality(DOMAIN table) = 3
    /\ setup.runs = 1

\* the worker whose statement is executed in this step
Executes(w) == requests[w].pc = "called" /\ requests'[w].pc = "done"

\* the worker that enters a create or an update in this step
Enters(w) ==
    /\ started' = started + 1
    /\ requests'[w] # requests[w]
    /\ requests'[w].op \in {"create", "update"}

\* C21 as stated: with create and update calls of concurrent requests
\* interleaved, no row ever carries a timestamp older than that of a write
\* applied to it earlier.
C21_OriginalStep ==
    \A i \in DOMAIN table \cap DOMAIN table' :
        ~TextLess(table'[i].timestamp, table[i].timestamp)

C21_Original == [][C21_OriginalStep]_vars

\* C21 amended: a row's timestamp is the clock reading the most recent
\* successful write applied to it took when the call was entered, never a
\* reading of the future; it is older than the timestamp of a write applied
\* earlier only when that write was applied while the call was under way.
C21_TimestampOfLastWriteStep ==
    /\ \A w \in Workers :
            Enters(w) => requests'[w].timestamp = GetCurrentTimestamp(clock)
    /\ \A i \in DOMAIN table' :
            (i \notin DOMAIN table \/ table'[i] # table[i]) =>
                \E w \in Workers :
                    /\ Executes(w)
                    /\ requests'[w].ok
                    /\ requests[w].op \in {"create", "update"}
                    /\ table'[i].timestamp = requests[w].timestamp
                    /\ ~TextLess(GetCurrentTimestamp(clock), table'[i].timestamp)
                    /\ (i \in DOMAIN table /\ TextLess(table'[i].timestamp, table[i].timestamp))
                            => requests[w].seen # {}

C21_TimestampOfLastWrite == [][C21_TimestampOfLastWriteStep]_vars

\* an update that overlapped another write to its row left the row with a
\* timestamp older than the clock
C21_Witness ==
    \E w \in Workers, i \in DOMAIN table :
        /\ requests[w].pc = "done" /\ requests[w].op = "update" /\ requests[w].ok
        /\ requests[w].seen # {}
        /\ IdMatches(i, requests[w].fid)
        /\ call.op = "update"
        /\ TextLess(table[i].timestamp, GetCurrentTimestamp(clock))
        /\ \E v \in Workers \ {w} : requests[v].pc = "done" /\ requests[v].op = "update"

\* the row an update call r writes
Written(r) == [user |-> r.data.user, comment |-> r.data.comment, timestamp |-> r.timestamp]

\* update v was applied to the row of update w while w was under way
Overlapped(w, v) ==
    /\ v # w
    /\ v \in requests[w].seen
    /\ requests[w].op = "update"
    /\ requests[v].pc = "done" /\ requests[v].op = "update"
    /\ requests[v].fid = requests[w].fid

\* C22: when two update calls on the same existing id overlap, both return
\* true, and when the second is applied the row's user, comment and
\* timestamp are all those of that call (last write wins), every other row
\* staying as it was.
C22_LastWriteWinsStep ==
    \A w \in Workers, v \in Workers :
        (/\ Executes(w) /\ Overlapped(w, v)
         /\ db_ok /\ Matching(table, requests[w].fid) # {}) =>
            /\ requests[v].ok /\ requests'[w].ok /\ call'.ok
            /\ DOMAIN table' = DOMAIN table
            /\ \A i \in DOMAIN table :
                table'[i] = IF IdMatches(i, requests[w].fid)
                            THEN Written(requests[w]) ELSE table[i]

C22_LastWriteWins == [][C22_LastWriteWinsStep]_vars

\* two overlapping updates of one row have both returned true, the row
\* carrying the timestamp of the one applied last
C22_Witness ==
    \E w \in Workers, v \in Workers :
        /\ Overlapped(w, v)
        /\ requests[w].pc = "done" /\ requests[w].ok /\ requests[v].ok
        /\ call.op = "update" /\ call.ok
        /\ Matching(table, requests[w].fid) # {}

\* the rows a delete call of this step removes
Deleting(w) == Executes(w) /\ requests[w].op = "delete" /\ db_ok

\* C26: update never resurrects a deleted row. Under every interleaving of
\* update and delete calls, a delete applied to an existing row returns true
\* and leaves no row with that id; an update applied when no row has its id
\* returns false and adds no row, so an update returns true only if it was
\* applied while the row was still there; an id whose row was deleted never
\* has a row again.
C26_NoResurrectionStep ==
    /\ \A i \in DOMAIN created : created[i] = Gone => i \notin DOMAIN table'
    /\ \A w \in Workers :
        /\ (Deleting(w) /\ Matching(table, requests[w].fid) # {}) =>
                /\ requests'[w].ok
                /\ Matching(table', requests[w].fid) = {}
        /\ (Executes(w) /\ requests[w].op = "update") =>
                /\ requests'[w].ok = (db_ok /\ Matching(table, requests[w].fid) # {})
                /\ DOMAIN table' = DOMAIN table
                /\ \A i \in DOMAIN created :
                        (created[i] = Gone /\ IdMatches(i, requests[w].fid)) => ~requests'[w].ok

C26_NoResurrection == [][C26_NoResurrectionStep]_vars

\* an update entered while the row existed was applied after a delete of the
\* row had returned true: it returned false and the row is still gone
C26_Witness ==
    \E w \in Workers, v \in Workers, i \in DOMAIN created :
        /\ requests[w].pc = "done" /\ requests[w].op = "update" /\ ~requests[w].ok
        /\ requests[v].pc = "done" /\ requests[v].op = "delete" /\ requests[v].ok
        /\ v \in requests[w].seen
        /\ requests[v].fid = requests[w].fid /\ IdMatches(i, requests[w].fid)
        /\ created[i] = Gone /\ i \notin DOMAIN table
        /\ call.op = "update" /\ ~call.ok /\ db_ok

\* C23: ids are unique and never reused. No two rows of a read_all result
\* share an id, the row found under an id carries that id, a step adds at
\* most one row, only a successful create adds one, the rows that were
\* there keep their ids, and the id of the new row is larger than every id
\* assigned before, the ids of deleted rows included.
C23_IdsNeverReusedStep ==
    /\ \A rows \in SelectAll(table') :
            \A j, k \in 1 .. Len(rows) : j # k => rows[j].id # rows[k].id
    /\ \A i \in DOMAIN table' : SelectOne(table', IntId(i)) = {RowDict(table', i)}
                                /\ RowDict(table', i).id = i
    /\ Cardinality(DOMAIN table' \ DOMAIN table) <= 1
    /\ \A i \in DOMAIN table' \ DOMAIN table :
            /\ call'.op = "create" /\ call'.ok
            /\ DOMAIN table \subseteq DOMAIN table'
            /\ \A j \in DOMAIN table : table'[j] = table[j]
            /\ i \notin DOMAIN created
            /\ \A j \in DOMAIN created : j < i

C23_IdsNeverReused == [][C23_IdsNeverReusedStep]_vars

\* a create that succeeded after the row with the highest id was deleted
C23_Witness ==
    /\ db_ok /\ call.op = "create" /\ call.ok
    /\ seq \in DOMAIN table
    /\ seq - 1 \in DeletedIds
    /\ \A j \in DOMAIN table : j = seq

\* the number of rows read_all returns after this step, less the number it
\* returns before it
Growth(n) ==
    \A old \in SelectAll(table), rows \in SelectAll(table') : Len(rows) = Len(old) + n

\* the ids whose rows were deleted, in the history h
GoneIds(h) == { i \in DOMAIN h : h[i] = Gone }

\* C24: on a working store the number of rows read_all returns is the number
\* of create calls that returned true less the number of delete calls that
\* returned true: a create adds one row exactly when it returns true, a
\* delete removes one exactly when it returns true, and an update neither
\* adds nor removes a row.
C24_RowCountStep ==
    db_ok =>
        /\ \A data \in DataInputs :
                (call'.op = "create" /\ Create(data)) =>
                    /\ Growth(IF call'.ok THEN 1 ELSE 0)
                    /\ Cardinality(DOMAIN created') =
                            Cardinality(DOMAIN created) + (IF call'.ok THEN 1 ELSE 0)
                    /\ GoneIds(created') = GoneIds(created)
        /\ \A fid \in IdInputs :
                (call'.op = "delete" /\ Delete(fid)) =>
                    /\ Growth(IF call'.ok THEN -1 ELSE 0)
                    /\ Cardinality(GoneIds(created')) =
                            Cardinality(GoneIds(created)) + (IF call'.ok THEN 1 ELSE 0)
                    /\ DOMAIN created' = DOMAIN created
        /\ \A fid \in IdInputs, data \in DataInputs :
                (call'.op = "update" /\ Update(fid, data)) =>
                    /\ Growth(0)
                    /\ DOMAIN table' = DOMAIN table
                    /\ DOMAIN created' = DOMAIN created
                    /\ GoneIds(created') = GoneIds(created)
        /\ \A rows \in SelectAll(table') :
                Len(rows) = Cardinality(DOMAIN created') - Cardinality(GoneIds(created'))

C24_RowCount == [][C24_RowCountStep]_vars

\* two creates and one delete have returned true and one row is left
C24_Witness ==
    /\ db_ok /\ call.op = "delete" /\ call.ok
    /\ Cardinality(DOMAIN created) = 2
    /\ Cardinality(GoneIds(created)) = 1
    /\ \E rows \in SelectAll(table) : Len(rows) = 1

\* text that is not empty and neither starts nor ends with whitespace
Trimmed(v) ==
    /\ ~IsNone(v) /\ v # <<>>
    /\ ~Blank(<<v[1]>>) /\ ~Blank(<<v[Len(v)]>>)

\* the data a route passes to storage for a form
Sanitized(form) ==
    [user |-> Strip(FormGet(form, "user")), comment |-> Strip(FormGet(form, "comment"))]

\* row i of table t holds the user and the comment of data
Holds(t, i, data) == t[i].user = data.user /\ t[i].comment = data.comment

\* a dict with a blank user or a blank comment, no None in it
BlankData(data) ==
    /\ HasKeys(data) /\ NotNullOk(data)
    /\ Blank(data.user) \/ Blank(data.comment)

\* the storage layer by itself takes blank fields: create inserts such a
\* row and returns true, and so does update for a row that exists
C25_StorageAcceptsBlank ==
    db_ok =>
        \A data \in { d \in DataInputs : BlankData(d) } :
            /\ ENABLED (/\ CreateCall(data) /\ UNCHANGED app_vars
                        /\ call'.ok
                        /\ \E i \in DOMAIN table' \ DOMAIN table : Holds(table', i, data))
            /\ \A i \in DOMAIN table :
                ENABLED (/\ Update(IntId(i), data) /\ UNCHANGED app_vars
                         /\ call'.ok
                         /\ Holds(table', i, data))

\* the rows the routes write
C25_RoutesStep ==
    /\ \A i \in DOMAIN table' : Trimmed(table'[i].user) /\ Trimmed(table'[i].comment)
    /\ \A form \in FormInputs :
        (/\ response'.route = "create_feedback" /\ response'.method = "POST"
         /\ CreateFeedbackPost(form)) =>
            /\ (response'.calls = <<>>) = InvalidForm(form)
            /\ ~InvalidForm(form) =>
                    /\ response'.calls = <<"create">>
                    /\ call'.ok => \E i \in DOMAIN table' \ DOMAIN table :
                                        Holds(table', i, Sanitized(form))
    /\ \A fid \in RouteIds, form \in FormInputs :
        (/\ response'.route = "update_feedback" /\ response'.method = "POST"
         /\ UpdateFeedbackPost(fid, form)) =>
            /\ (response'.calls = <<>>) = InvalidForm(form)
            /\ InvalidForm(form) => table' = table
            /\ ~InvalidForm(form) =>
                    /\ response'.calls[1] = "update"
                    /\ \A i \in Matching(table', fid) : Holds(table', i, Sanitized(form))

\* C25: every row written through POST /create_feedback or POST
\* /update_feedback/{id} has a user and a comment that are non-empty and
\* carry no leading or trailing whitespace: storage gets the trimmed form
\* fields, a missing field counting as empty, and is called only when both
\* pass validation. The storage layer by itself does not enforce this:
\* create and update accept empty strings.
C25_RoutesWriteTrimmed == [][C25_RoutesStep]_vars /\ []C25_StorageAcceptsBlank

\* a form whose fields carry surrounding whitespace was posted and the row
\* holds them trimmed
C25_Witness ==
    /\ response.route \in {"create_feedback", "update_feedback"}
    /\ response.method = "POST" /\ response.status = 302
    /\ call.ok
    /\ \E i \in DOMAIN table : table[i].user = <<98>> /\ table[i].comment = <<97>>

\* C27: the store changes only through a successful write. read_all and
\* get_by_id leave the rows and the id counter as they are; a create, update
\* or delete that returns false (or raises) leaves the set of rows and every
\* row's fields as they were; a step that changes a row is a create, update
\* or delete that returned true.
C27_OnlyWritesChangeStep ==
    /\ (call'.op = "read_all" /\ ReadAll) => (table' = table /\ seq' = seq)
    /\ \A fid \in IdInputs :
            (call'.op = "get_by_id" /\ GetById(fid)) => (table' = table /\ seq' = seq)
    /\ \A data \in DataInputs :
            (call'.op = "create" /\ ~call'.ok /\ Create(data)) => table' = table
    /\ \A fid \in IdInputs, data \in DataInputs :
            (call'.op = "update" /\ ~call'.ok /\ Update(fid, data)) => table' = table
    /\ \A fid \in IdInputs :
            (call'.op = "delete" /\ ~call'.ok /\ Delete(fid)) => table' = table
    /\ table' # table => (call'.op \in {"create", "update", "delete"} /\ call'.ok)

C27_OnlyWritesChange == [][C27_OnlyWritesChangeStep]_vars

\* a create refused by NOT NULL on a store that holds a row
C27_Witness ==
    /\ db_ok /\ call.op = "create" /\ ~call.ok /\ call.logged = "IntegrityError"
    /\ table # EmptyTable

\* C28: following redirects from a request to any of the five routes ends in
\* a rendered page. The read view is always rendered, never a redirect;
\* every redirect names the read view or, as the first of its chain and in
\* answer to a POST of the update form, the GET update form, and can be
\* followed; no chain has more than two redirects.
C28_RedirectsEnd ==
    /\ hops \in 0 .. 2
    /\ response.route # "none" =>
        /\ response.status \in {200, 302}
        /\ response.route = "read_feedback" =>
                (response.status = 200 /\ response.template = "read.html")
        /\ response.status = 200 => response.template # ""
        /\ response.status = 302 =>
                /\ hops >= 1
                /\ ENABLED FollowRedirect
                /\ \/ response.location = "read_feedback"
                   \/ /\ response.location = "update_feedback"
                      /\ response.route = "update_feedback" /\ response.method = "POST"
                      /\ hops = 1

\* the read view rendered at the end of a chain of two redirects
C28_Witness ==
    /\ hops = 2
    /\ response.route = "read_feedback" /\ response.status = 200
    /\ call.op = "read_all"

====
